---- MODULE Spec2Model ----
(***************************************************************************)
(* Spike-element-wise ResNets of braincog/model_zoo/sew_resnet.py.         *)
(*                                                                         *)
(* A tensor is a sequence of rows, one integer per row (one sample of one  *)
(* timestep); the channel, spatial and class axes are collapsed to that    *)
(* one number.  A network is built stack by stack (_make_layer) and then   *)
(* called repeatedly (forward); a call is executed stage by stage.         *)
(***************************************************************************)
EXTENDS Integers, Sequences, FiniteSets, TLC

VARIABLES
    pc,        \* position of the program: "new", "ctor", "idle", a forward position, ...
    net,       \* the network object: configuration, running inplanes/dilation, stacks
    li,        \* constructor: index of the next stack to build
    nodes,     \* membrane state of every spiking node of the network
    xin,       \* forward: the raw input of the call in progress
    inputs,    \* forward: what self.encoder returned
    cur,       \* forward: the local variable x
    si,        \* forward: index of the next stage of the body
    t,         \* forward: loop variable of the looped pass
    outputs,   \* forward: the list `outputs` of the looped pass
    result,    \* forward: the value returned by the call
    err,       \* the exception that ended construction or the call ("" if none)
    trace,     \* forward: stages executed by the call in progress, in order
    startNodes,\* history: node state when the call in progress began
    log,       \* history: one record per finished call
    op         \* scratch record of the function-level specification

vars == <<pc, net, li, nodes, xin, inputs, cur, si, t, outputs, result, err,
          trace, startNodes, log, op>>

(***************************************************************************)
(* Bounds                                                                  *)
(***************************************************************************)
\* rows per timestep (batch size)
BatchSize == 2
\* largest timestep count a network is built with
MaxStep == 2
\* forward calls made on one network
MaxCalls == 3
\* length of the operand tensors of the function-level specification
MaxLen == 2

\* pixel values of the raw inputs and of the function-level operands
Values == 0..2

InputA == [b \in 1..BatchSize |-> b % 3]
InputB == [b \in 1..BatchSize |-> (3 - b) % 3]
Inputs == {InputA, InputB}

(***************************************************************************)
(* Tensors                                                                 *)
(***************************************************************************)
NoErr == ""

\* The({e(v) : v \in {d}}) is  LET v == d IN e(v)  with d evaluated once
The(S) == CHOOSE v \in S : TRUE

Ok(v) == [err |-> NoErr, val |-> v]
Raise(e) == [err |-> e, val |-> <<>>]

\* x + y, x * y, 1. - y on tensors of one shape
TAdd(x, y) == [i \in DOMAIN x |-> x[i] + y[i]]
TMul(x, y) == [i \in DOMAIN x |-> x[i] * y[i]]
TComplement(y) == [i \in DOMAIN y |-> 1 - y[i]]

Sew_SwappedIAND(x, y, cnf) ==
    IF cnf = "ADD" THEN Ok(TAdd(x, y))
    ELSE IF cnf = "AND" THEN Ok(TMul(x, y))
    ELSE IF cnf = "IAND" THEN Ok(TMul(y, TComplement(x)))
    ELSE Raise("NotImplementedError")

Sew_DefaultAdd(x, y, cnf) ==
    IF cnf = "AND" THEN Ok(TMul(x, y))
    ELSE IF cnf = "IAND" THEN Ok(TMul(x, TComplement(y)))
    ELSE Ok(TAdd(x, y))

sew_function(x, y, cnf) ==
    IF cnf = "ADD" THEN Ok(TAdd(x, y))
    ELSE IF cnf = "AND" THEN Ok(TMul(x, y))
    ELSE IF cnf = "IAND" THEN Ok(TMul(x, TComplement(y)))
    ELSE Raise("NotImplementedError")

(***************************************************************************)
(* Collaborators of the file: spiking node, encoder, BaseModule.reset      *)
(***************************************************************************)
\* firing threshold of a node
Threshold == 2

\* membrane state of a freshly built or freshly reset node
InitMem == [b \in 1..BatchSize |-> 0]

\* one timestep of a node on the BatchSize rows of that timestep:
\* integrate, fire where the threshold is reached, subtract it where fired
NodeStep(mem, rows) ==
    The({ [out |-> [b \in 1..BatchSize |-> IF v[b] >= Threshold THEN 1 ELSE 0],
           mem |-> [b \in 1..BatchSize |-> IF v[b] >= Threshold THEN v[b] - Threshold
                                                                  ELSE v[b]]] :
          v \in {[b \in 1..BatchSize |-> mem[b] + rows[b]]} })

\* a node called on a tensor: one NodeStep per group of BatchSize rows, in
\* row order ('(t b) ...' layout), the membrane carried from group to group
RECURSIVE NodeApply(_, _)
NodeApply(mem, rows) ==
    IF Len(rows) <= BatchSize
    THEN NodeStep(mem, rows)
    ELSE The({ The({ [out |-> first.out \o rest.out, mem |-> rest.mem] :
                      rest \in {NodeApply(first.mem,
                                          SubSeq(rows, BatchSize + 1, Len(rows)))} }) :
               first \in {NodeStep(mem, SubSeq(rows, 1, BatchSize))} })

\* self.encoder(inputs) of the looped pass: a sequence of step tensors.
\* "direct" repeats the input; "shift" gives every timestep its own slice.
EncodeSlice(x, encode_type, tt) ==
    IF encode_type = "direct" THEN x
    ELSE [b \in DOMAIN x |-> (x[b] + tt) % 3]

EncodeLooped(x, encode_type, step) ==
    [tt \in 1..step |-> EncodeSlice(x, encode_type, tt - 1)]

\* self.encoder(inputs) of the flattened pass: the same slices, timestep-major
RECURSIVE Flatten(_)
Flatten(seqs) == IF seqs = <<>> THEN <<>> ELSE Head(seqs) \o Flatten(Tail(seqs))

EncodeFlat(x, encode_type, step) == Flatten(EncodeLooped(x, encode_type, step))

(***************************************************************************)
(* Stateless layers                                                        *)
(***************************************************************************)
\* the weight every convolution and linear layer carries (a fixed parameter)
Weight == 3
\* nn.init.constant_(m.weight, 1), nn.init.constant_(m.bias, 0)
BnWeight == 1
BnBias == 0

\* nn.Conv2d / nn.Linear without bias
Conv(x) == [i \in DOMAIN x |-> Weight * x[i]]
\* the weight of the stem convolution self.conv1 (a fixed parameter): below
\* the firing threshold, so that a constant input makes the stem node fire
\* at some timesteps and stay silent at others
StemWeight == 1
StemConv(x) == [i \in DOMAIN x |-> StemWeight * x[i]]
\* norm_layer in inference mode with its initial statistics
BatchNorm(x) == [i \in DOMAIN x |-> BnWeight * x[i] + BnBias]
\* conv -> norm, as every stage of a block applies them
ConvBn(x) == BatchNorm(Conv(x))

(***************************************************************************)
(* Residual blocks                                                         *)
(***************************************************************************)
Expansion(block) == IF block = "Bottleneck" THEN 4 ELSE 1

BasicBlock_any_dilation(inplanes, planes, stride, downsample, groups, base_width, dilation, cnf) ==
    IF groups # 1 \/ base_width # 64 THEN Raise("ValueError")
    ELSE Ok([kind |-> "BasicBlock", inplanes |-> inplanes, planes |-> planes,
             width |-> planes, stride |-> stride, downsample |-> downsample,
             groups |-> groups, base_width |-> base_width, dilation |-> dilation,
             cnf |-> cnf])

BasicBlock_any_width(inplanes, planes, stride, downsample, groups, base_width, dilation, cnf) ==
    IF groups # 1 THEN Raise("ValueError")
    ELSE IF dilation > 1 THEN Raise("NotImplementedError")
    ELSE Ok([kind |-> "BasicBlock", inplanes |-> inplanes, planes |-> planes,
             width |-> planes, stride |-> stride, downsample |-> downsample,
             groups |-> groups, base_width |-> base_width, dilation |-> dilation,
             cnf |-> cnf])

\* BasicBlock.__init__
BasicBlock(inplanes, planes, stride, downsample, groups, base_width, dilation, cnf) ==
    IF groups # 1 \/ base_width # 64 THEN Raise("ValueError")
    ELSE IF dilation > 1 THEN Raise("NotImplementedError")
    ELSE Ok([kind |-> "BasicBlock", inplanes |-> inplanes, planes |-> planes,
             width |-> planes, stride |-> stride, downsample |-> downsample,
             groups |-> groups, base_width |-> base_width, dilation |-> dilation,
             cnf |-> cnf])

\* Bottleneck.__init__
Bottleneck(inplanes, planes, stride, downsample, groups, base_width, dilation, cnf) ==
    Ok([kind |-> "Bottleneck", inplanes |-> inplanes, planes |-> planes,
        width |-> ((planes * base_width) \div 64) * groups,
        stride |-> stride, downsample |-> downsample,
        groups |-> groups, base_width |-> base_width, dilation |-> dilation,
        cnf |-> cnf])

NewBlock(block, inplanes, planes, stride, downsample, groups, base_width, dilation, cnf) ==
    IF block = "Bottleneck"
    THEN Bottleneck(inplanes, planes, stride, downsample, groups, base_width, dilation, cnf)
    ELSE BasicBlock(inplanes, planes, stride, downsample, groups, base_width, dilation, cnf)

\* the node attributes a block creates, in creation order
BlockNodeNames(blk) ==
    (IF blk.kind = "Bottleneck" THEN <<"node1", "node2", "node3">>
                                ELSE <<"node1", "node2">>)
    \o (IF blk.downsample THEN <<"downsample_sn">> ELSE <<>>)

\* self.nodeN(self.bnN(self.convN(x))) on path state p = [out, nodes]
PathStage(p, id) ==
    The({ [out |-> a.out, nodes |-> [p.nodes EXCEPT ![id] = a.mem]] :
          a \in {NodeApply(p.nodes[id], ConvBn(p.out))} })

\* the main path of a block: conv/bn/node stages in order, from node state ns
MainPath(blk, l, k, ns, x) ==
    The({ The({ IF blk.kind = "Bottleneck" THEN PathStage(p2, <<l, k, "node3">>)
                                           ELSE p2 :
                p2 \in {PathStage(p1, <<l, k, "node2">>)} }) :
          p1 \in {PathStage([out |-> x, nodes |-> ns], <<l, k, "node1">>)} })

\* identity, or self.downsample_sn(self.downsample(x)) when a shortcut exists
ShortcutPath(blk, l, k, ns, x) ==
    IF blk.downsample
    THEN PathStage([out |-> x, nodes |-> ns], <<l, k, "downsample_sn">>)
    ELSE [out |-> x, nodes |-> ns]

BasicBlock_forward_swapped(blk, l, k, ns, x) ==
    The({ The({ The({ [err |-> r.err, val |-> r.val, nodes |-> s.nodes] :
                      r \in {sew_function(m.out, s.out, blk.cnf)} }) :
                s \in {ShortcutPath(blk, l, k, m.nodes, x)} }) :
          m \in {MainPath(blk, l, k, ns, x)} })

\* BasicBlock.forward: sew_function(identity, out, self.cnf)
BasicBlock_forward(blk, l, k, ns, x) ==
    The({ The({ The({ [err |-> r.err, val |-> r.val, nodes |-> s.nodes] :
                      r \in {sew_function(s.out, m.out, blk.cnf)} }) :
                s \in {ShortcutPath(blk, l, k, m.nodes, x)} }) :
          m \in {MainPath(blk, l, k, ns, x)} })

\* Bottleneck.forward: sew_function(out, identity, self.cnf)
Bottleneck_forward(blk, l, k, ns, x) ==
    The({ The({ The({ [err |-> r.err, val |-> r.val, nodes |-> s.nodes] :
                      r \in {sew_function(m.out, s.out, blk.cnf)} }) :
                s \in {ShortcutPath(blk, l, k, m.nodes, x)} }) :
          m \in {MainPath(blk, l, k, ns, x)} })

BlockForward(blk, l, k, ns, x) ==
    IF blk.kind = "Bottleneck" THEN Bottleneck_forward(blk, l, k, ns, x)
                               ELSE BasicBlock_forward(blk, l, k, ns, x)

\* nn.Sequential of the blocks of stack l, from block k on
RECURSIVE StackForward(_, _, _, _, _)
StackForward(stack, l, k, ns, x) ==
    IF k > Len(stack) THEN [err |-> NoErr, val |-> x, nodes |-> ns]
    ELSE The({ IF r.err # NoErr THEN r
                                ELSE StackForward(stack, l, k + 1, r.nodes, r.val) :
               r \in {BlockForward(stack[k], l, k, ns, x)} })

(***************************************************************************)
(* Network construction                                                    *)
(***************************************************************************)
Variants == {"SEWResNet", "SEWResNet19", "SEWResNetCifar"}

\* the _make_layer calls of a variant's __init__, in order:
\* planes, layers[i], stride, dilate
StackPlan(variant, layers, rswd) ==
    IF variant = "SEWResNet"
    THEN << [planes |-> 64,  blocks |-> layers[1], stride |-> 1, dilate |-> FALSE],
            [planes |-> 128, blocks |-> layers[2], stride |-> 2, dilate |-> rswd[1]],
            [planes |-> 256, blocks |-> layers[3], stride |-> 2, dilate |-> rswd[2]],
            [planes |-> 512, blocks |-> layers[4], stride |-> 2, dilate |-> rswd[3]] >>
    ELSE << [planes |-> 128, blocks |-> layers[1], stride |-> 1, dilate |-> FALSE],
            [planes |-> 256, blocks |-> layers[2], stride |-> 2, dilate |-> rswd[1]],
            [planes |-> 512, blocks |-> layers[3], stride |-> 2, dilate |-> rswd[2]] >>

\* attributes assigned before the first _make_layer call
StemAttrs(variant) ==
    IF variant = "SEWResNet19" THEN {"conv1", "bn1", "node1"}
    ELSE {"conv1", "bn1", "node1", "maxpool"}

\* attributes assigned after the last _make_layer call
HeadAttrs(variant) ==
    IF variant = "SEWResNet19" THEN {"avgpool", "fc1", "fc2", "node2"}
    ELSE {"avgpool", "fc"}

LayerAttr(i) == <<"layer1", "layer2", "layer3", "layer4">>[i]

_make_layer_stride_only(self, block, planes, blocks, stride, dilate, cnf) ==
    LET previous_dilation == self.dilation
        dilation   == IF dilate THEN self.dilation * stride ELSE self.dilation
        stride1    == IF dilate THEN 1 ELSE stride
        downsample == stride1 # 1
        first      == NewBlock(block, self.inplanes, planes, stride1, downsample,
                               self.groups, self.base_width, previous_dilation, cnf)
        inplanes   == planes * Expansion(block)
        later      == NewBlock(block, inplanes, planes, 1, FALSE,
                               self.groups, self.base_width, dilation, cnf)
    IN  IF first.err # NoErr
        THEN [err |-> first.err, stack |-> <<>>,
              inplanes |-> self.inplanes, dilation |-> dilation]
        ELSE IF blocks > 1 /\ later.err # NoErr
        THEN [err |-> later.err, stack |-> <<>>,
              inplanes |-> inplanes, dilation |-> dilation]
        ELSE [err |-> NoErr,
              stack |-> [k \in 1..(IF blocks > 1 THEN blocks ELSE 1) |->
                            IF k = 1 THEN first.val ELSE later.val],
              inplanes |-> inplanes, dilation |-> dilation]

_make_layer_keeps_stride(self, block, planes, blocks, stride, dilate, cnf) ==
    LET previous_dilation == self.dilation
        dilation   == IF dilate THEN self.dilation * stride ELSE self.dilation
        stride1    == stride
        downsample == stride1 # 1 \/ self.inplanes # planes * Expansion(block)
        first      == NewBlock(block, self.inplanes, planes, stride1, downsample,
                               self.groups, self.base_width, previous_dilation, cnf)
        inplanes   == planes * Expansion(block)
        later      == NewBlock(block, inplanes, planes, 1, FALSE,
                               self.groups, self.base_width, dilation, cnf)
    IN  IF first.err # NoErr
        THEN [err |-> first.err, stack |-> <<>>,
              inplanes |-> self.inplanes, dilation |-> dilation]
        ELSE IF blocks > 1 /\ later.err # NoErr
        THEN [err |-> later.err, stack |-> <<>>,
              inplanes |-> inplanes, dilation |-> dilation]
        ELSE [err |-> NoErr,
              stack |-> [k \in 1..(IF blocks > 1 THEN blocks ELSE 1) |->
                            IF k = 1 THEN first.val ELSE later.val],
              inplanes |-> inplanes, dilation |-> dilation]

\* _make_layer on a network whose running state is self; returns the stack
\* and the running inplanes/dilation it leaves behind
_make_layer(self, block, planes, blocks, stride, dilate, cnf) ==
    LET previous_dilation == self.dilation
        dilation   == IF dilate THEN self.dilation * stride ELSE self.dilation
        stride1    == IF dilate THEN 1 ELSE stride
        downsample == stride1 # 1 \/ self.inplanes # planes * Expansion(block)
        first      == NewBlock(block, self.inplanes, planes, stride1, downsample,
                               self.groups, self.base_width, previous_dilation, cnf)
        inplanes   == planes * Expansion(block)
        later      == NewBlock(block, inplanes, planes, 1, FALSE,
                               self.groups, self.base_width, dilation, cnf)
    IN  IF first.err # NoErr
        THEN [err |-> first.err, stack |-> <<>>,
              inplanes |-> self.inplanes, dilation |-> dilation]
        ELSE IF blocks > 1 /\ later.err # NoErr
        THEN [err |-> later.err, stack |-> <<>>,
              inplanes |-> inplanes, dilation |-> dilation]
        ELSE [err |-> NoErr,
              stack |-> [k \in 1..(IF blocks > 1 THEN blocks ELSE 1) |->
                            IF k = 1 THEN first.val ELSE later.val],
              inplanes |-> inplanes, dilation |-> dilation]

\* every spiking node of a network with these stacks
NodeIds(variant, stacks) ==
    {<<0, 0, "node1">>}
    \cup (IF variant = "SEWResNet19" THEN {<<0, 0, "node2">>} ELSE {})
    \cup UNION {UNION {{<<l, k, BlockNodeNames(stacks[l][k])[n]>> :
                           n \in DOMAIN BlockNodeNames(stacks[l][k])} :
                       k \in DOMAIN stacks[l]} :
                l \in DOMAIN stacks}

NoNet == [variant |-> "none"]

\* kwargs[key] if key in kwargs else default
KwGet(kw, key, default) == IF key \in DOMAIN kw THEN kw[key] ELSE default

Construct_rswd_late(variant, block, layers, cnf, kw, groups, width_per_group, rswdNone, rswd, via) ==
    LET r == IF rswdNone THEN <<FALSE, FALSE, FALSE>> ELSE rswd
        given == [none |-> rswdNone, val |-> rswd]
    IN  /\ pc = "new"
        /\ IF Len(r) # 3
           THEN /\ pc' = "ctor_raised"
                /\ err' = "ValueError"
                /\ net' = [variant |-> variant, block |-> block, layers |-> layers,
                           owned |-> StemAttrs(variant), stacks |-> <<>>, via |-> via,
                           rswd_arg |-> given]
           ELSE /\ pc' = "ctor"
                /\ err' = NoErr
                /\ net' = [variant |-> variant, block |-> block, layers |-> layers,
                           cnf |-> cnf, step |-> kw.step, encode_type |-> kw.encode_type,
                           layer_by_layer |-> kw.layer_by_layer,
                           once |-> KwGet(kw, "once", FALSE),
                           sum_output |-> KwGet(kw, "sum_output", TRUE),
                           init_channel |-> IF kw.dvs THEN 2 ELSE 3,
                           inplanes |-> 64, dilation |-> 1,
                           groups |-> groups, base_width |-> width_per_group,
                           rswd |-> r, stacks |-> <<>>,
                           owned |-> StemAttrs(variant),
                           via |-> via, loaded |-> FALSE, rswd_arg |-> given,
                           kw_given |-> DOMAIN kw]
        /\ li' = 1
        /\ UNCHANGED <<nodes, xin, inputs, cur, si, t, outputs, result, trace,
                       startNodes, log, op>>

\* __init__ up to the stem: argument handling and validation.
\* kw is the keyword configuration; rswdNone says that
\* replace_stride_with_dilation was left None, rswd is its value otherwise;
\* via tells who called the class: a factory function or the caller itself.
\* rswd_arg keeps the argument as it was given, kw_given the keywords given.
Construct(variant, block, layers, cnf, kw, groups, width_per_group, rswdNone, rswd, via) ==
    LET r == IF rswdNone THEN <<FALSE, FALSE, FALSE>> ELSE rswd
        given == [none |-> rswdNone, val |-> rswd]
    IN  /\ pc = "new"
        /\ IF Len(r) # 3
           THEN /\ pc' = "ctor_raised"
                /\ err' = "ValueError"
                /\ net' = [variant |-> variant, block |-> block, layers |-> layers,
                           owned |-> {}, stacks |-> <<>>, via |-> via,
                           rswd_arg |-> given]
           ELSE /\ pc' = "ctor"
                /\ err' = NoErr
                /\ net' = [variant |-> variant, block |-> block, layers |-> layers,
                           cnf |-> cnf, step |-> kw.step, encode_type |-> kw.encode_type,
                           layer_by_layer |-> kw.layer_by_layer,
                           once |-> KwGet(kw, "once", FALSE),
                           sum_output |-> KwGet(kw, "sum_output", TRUE),
                           init_channel |-> IF kw.dvs THEN 2 ELSE 3,
                           inplanes |-> 64, dilation |-> 1,
                           groups |-> groups, base_width |-> width_per_group,
                           rswd |-> r, stacks |-> <<>>,
                           owned |-> StemAttrs(variant),
                           via |-> via, loaded |-> FALSE, rswd_arg |-> given,
                           kw_given |-> DOMAIN kw]
        /\ li' = 1
        /\ UNCHANGED <<nodes, xin, inputs, cur, si, t, outputs, result, trace,
                       startNodes, log, op>>

\* one self.layerN = self._make_layer(...) statement of __init__
MakeLayer ==
    /\ pc = "ctor"
    /\ li <= Len(StackPlan(net.variant, net.layers, net.rswd))
    /\ \E p \in {StackPlan(net.variant, net.layers, net.rswd)[li]} :
       \E r \in {_make_layer(net, net.block, p.planes, p.blocks, p.stride, p.dilate,
                              net.cnf)} :
           IF r.err # NoErr
           THEN /\ pc' = "ctor_raised"
                /\ err' = r.err
                /\ net' = [net EXCEPT !.inplanes = r.inplanes, !.dilation = r.dilation]
                /\ li' = li
           ELSE /\ pc' = "ctor"
                /\ err' = NoErr
                /\ net' = [net EXCEPT !.inplanes = r.inplanes, !.dilation = r.dilation,
                                      !.stacks = Append(@, r.stack),
                                      !.owned = @ \cup {LayerAttr(li)}]
                /\ li' = li + 1
    /\ UNCHANGED <<nodes, xin, inputs, cur, si, t, outputs, result, trace,
                   startNodes, log, op>>

\* the rest of __init__: pooling, classifier head, parameter initialisation
CtorFinish ==
    /\ pc = "ctor"
    /\ li > Len(StackPlan(net.variant, net.layers, net.rswd))
    /\ net' = [net EXCEPT !.owned = @ \cup HeadAttrs(net.variant)]
    /\ nodes' = [id \in NodeIds(net.variant, net.stacks) |-> InitMem]
    /\ pc' = IF net.via.fn = "_sew_resnet" /\ net.via.pretrained THEN "load" ELSE "idle"
    /\ UNCHANGED <<li, xin, inputs, cur, si, t, outputs, result, err, trace,
                   startNodes, log, op>>

(***************************************************************************)
(* Forward pass                                                            *)
(***************************************************************************)
\* the statements of the body of _forward_impl (the same in both branches)
ImplStages(variant) ==
    IF variant = "SEWResNet"
    THEN <<"conv1", "bn1", "node1", "maxpool", "layer1", "layer2", "layer3",
           "layer4", "avgpool", "flatten", "fc">>
    ELSE IF variant = "SEWResNet19"
    THEN <<"conv1", "bn1", "node1", "layer1", "layer2", "layer3",
           "avgpool", "flatten", "fc1", "node2", "fc2">>
    ELSE <<"conv1", "bn1", "node1", "layer1", "layer2", "layer3",
           "avgpool", "flatten", "fc">>

\* the statements of _forward_once: the same text in all three classes
OnceStages(variant) ==
    <<"conv1", "bn1", "node1", "maxpool", "layer1", "layer2", "layer3",
      "layer4", "avgpool", "flatten", "fc">>

\* torch.flatten is a function; every other stage is an attribute of self
NeedsAttr(stage) == stage # "flatten"

LayerIndex(stage) ==
    IF stage = "layer1" THEN 1 ELSE IF stage = "layer2" THEN 2
    ELSE IF stage = "layer3" THEN 3 ELSE 4

\* pooling and flattening of a map whose spatial extent is one value
MaxPool(x) == x
AvgPool(x) == x
TorchFlatten(x) == x

\* one statement  x = self.<stage>(x)  on network n with node state ns
ApplyStage(n, stage, ns, x) ==
    IF NeedsAttr(stage) /\ stage \notin n.owned
    THEN [err |-> "AttributeError", val |-> x, nodes |-> ns]
    ELSE IF stage = "conv1"
    THEN [err |-> NoErr, val |-> StemConv(x), nodes |-> ns]
    ELSE IF stage \in {"fc", "fc1", "fc2"}
    THEN [err |-> NoErr, val |-> Conv(x), nodes |-> ns]
    ELSE IF stage = "bn1"
    THEN [err |-> NoErr, val |-> BatchNorm(x), nodes |-> ns]
    ELSE IF stage \in {"node1", "node2"}
    THEN The({ [err |-> NoErr, val |-> a.out,
                nodes |-> [ns EXCEPT ![<<0, 0, stage>>] = a.mem]] :
               a \in {NodeApply(ns[<<0, 0, stage>>], x)} })
    ELSE IF stage = "maxpool" THEN [err |-> NoErr, val |-> MaxPool(x), nodes |-> ns]
    ELSE IF stage = "avgpool" THEN [err |-> NoErr, val |-> AvgPool(x), nodes |-> ns]
    ELSE IF stage = "flatten" THEN [err |-> NoErr, val |-> TorchFlatten(x), nodes |-> ns]
    ELSE StackForward(n.stacks[LayerIndex(stage)], LayerIndex(stage), 1, ns, x)

\* BaseModule.reset(): every node back to its initial state
ResetNodes(ns) == [id \in DOMAIN ns |-> InitMem]

Rearrange_batch_major(x, step) ==
    LET b == Len(x) \div step
    IN  [tt \in 1..step |-> [bb \in 1..b |-> x[(bb - 1) * step + tt]]]

\* rearrange(x, '(t b) c -> t b c', t=step)
Rearrange(x, step) ==
    LET b == Len(x) \div step
    IN  [tt \in 1..step |-> [bb \in 1..b |-> x[(tt - 1) * b + bb]]]

\* the sum of the tensors of a non-empty sequence, elementwise
RECURSIVE TSum(_)
TSum(xs) == IF Len(xs) = 1 THEN xs[1] ELSE TAdd(xs[1], TSum(Tail(xs)))

\* mean over the leading axis, kept as an exact quotient num / den
Mean0(xs) == [num |-> TSum(xs), den |-> Len(xs)]

NoResult == [none |-> TRUE]

Mode(n) ==
    IF n.once THEN "once" ELSE IF n.layer_by_layer THEN "flat" ELSE "loop"

BodyStages(n) ==
    IF n.once THEN OnceStages(n.variant) ELSE ImplStages(n.variant)

Forward_once_unless_flat(x) ==
    /\ pc = "idle"
    /\ Len(log) < MaxCalls
    /\ xin' = x
    /\ trace' = <<>>
    /\ startNodes' = nodes
    /\ outputs' = <<>>
    /\ result' = NoResult
    /\ err' = NoErr
    /\ t' = 0
    /\ si' = 1
    /\ IF net.once /\ ~net.layer_by_layer
       THEN pc' = "once" /\ cur' = x
       ELSE pc' = "encode" /\ cur' = <<>>
    /\ inputs' = <<>>
    /\ UNCHANGED <<net, li, nodes, log, op>>

\* forward(x): dispatch on self.once
Forward(x) ==
    /\ pc = "idle"
    /\ Len(log) < MaxCalls
    /\ xin' = x
    /\ trace' = <<>>
    /\ startNodes' = nodes
    /\ outputs' = <<>>
    /\ result' = NoResult
    /\ err' = NoErr
    /\ t' = 0
    /\ si' = 1
    /\ IF net.once
       THEN pc' = "once" /\ cur' = x
       ELSE pc' = "encode" /\ cur' = <<>>
    /\ inputs' = <<>>
    /\ UNCHANGED <<net, li, nodes, log, op>>

\* inputs = self.encoder(inputs)
Encode ==
    /\ pc = "encode"
    /\ inputs' = IF net.layer_by_layer
                 THEN EncodeFlat(xin, net.encode_type, net.step)
                 ELSE EncodeLooped(xin, net.encode_type, net.step)
    /\ trace' = Append(trace, "encoder")
    /\ pc' = "reset"
    /\ UNCHANGED <<net, li, nodes, xin, cur, si, t, outputs, result, err,
                   startNodes, log, op>>

Reset_missing ==
    /\ pc = "reset"
    /\ trace' = Append(trace, "reset")
    /\ nodes' = nodes
    /\ IF net.layer_by_layer
       THEN pc' = "flat" /\ cur' = inputs
       ELSE pc' = "loop" /\ cur' = inputs[1]
    /\ si' = 1
    /\ t' = 0
    /\ outputs' = <<>>
    /\ UNCHANGED <<net, li, xin, inputs, result, err, startNodes, log, op>>

\* self.reset(), then the branch on self.layer_by_layer and the first x = ...
Reset ==
    /\ pc = "reset"
    /\ trace' = Append(trace, "reset")
    /\ nodes' = ResetNodes(nodes)
    /\ IF net.layer_by_layer
       THEN pc' = "flat" /\ cur' = inputs
       ELSE pc' = "loop" /\ cur' = inputs[1]
    /\ si' = 1
    /\ t' = 0
    /\ outputs' = <<>>
    /\ UNCHANGED <<net, li, xin, inputs, result, err, startNodes, log, op>>

\* the next statement of the body, in whichever pass is running
Stage ==
    /\ pc \in {"once", "flat", "loop"}
    /\ si <= Len(BodyStages(net))
    /\ \E r \in {ApplyStage(net, BodyStages(net)[si], nodes, cur)} :
           /\ trace' = Append(trace, BodyStages(net)[si])
           /\ nodes' = r.nodes
           /\ cur' = r.val
           /\ IF r.err # NoErr
              THEN pc' = "raised" /\ err' = r.err /\ si' = si
              ELSE pc' = pc /\ err' = err /\ si' = si + 1
    /\ UNCHANGED <<net, li, xin, inputs, t, outputs, result, startNodes, log, op>>

ReturnOnce_clears_once ==
    /\ pc = "once"
    /\ si > Len(BodyStages(net))
    /\ result' = cur
    /\ pc' = "done"
    /\ net' = [net EXCEPT !.once = FALSE]
    /\ UNCHANGED <<li, nodes, xin, inputs, cur, si, t, outputs, err, trace,
                   startNodes, log, op>>

\* _forward_once: return x
ReturnOnce ==
    /\ pc = "once"
    /\ si > Len(BodyStages(net))
    /\ result' = cur
    /\ pc' = "done"
    /\ UNCHANGED <<net, li, nodes, xin, inputs, cur, si, t, outputs, err, trace,
                   startNodes, log, op>>

FinishFlat_last_step ==
    /\ pc = "flat"
    /\ si > Len(BodyStages(net))
    /\ result' = IF net.sum_output
                 THEN [num |-> Rearrange(cur, net.step)[net.step], den |-> 1]
                 ELSE Rearrange(cur, net.step)
    /\ pc' = "done"
    /\ UNCHANGED <<net, li, nodes, xin, inputs, cur, si, t, outputs, err, trace,
                   startNodes, log, op>>

\* flattened pass: rearrange, mean over timesteps if sum_output, return
FinishFlat ==
    /\ pc = "flat"
    /\ si > Len(BodyStages(net))
    /\ result' = IF net.sum_output THEN Mean0(Rearrange(cur, net.step))
                 ELSE Rearrange(cur, net.step)
    /\ pc' = "done"
    /\ UNCHANGED <<net, li, nodes, xin, inputs, cur, si, t, outputs, err, trace,
                   startNodes, log, op>>

LoopEnd_first_slice ==
    /\ pc = "loop"
    /\ si > Len(BodyStages(net))
    /\ outputs' = Append(outputs, cur)
    /\ t' = t + 1
    /\ IF t + 1 < net.step
       THEN /\ cur' = inputs[1]
            /\ si' = 1
            /\ pc' = "loop"
            /\ result' = result
       ELSE /\ cur' = cur
            /\ si' = si
            /\ pc' = "done"
            /\ result' = IF ~net.sum_output THEN outputs' ELSE Mean0(outputs')
    /\ UNCHANGED <<net, li, nodes, xin, inputs, err, trace, startNodes, log, op>>

\* looped pass: outputs.append(x), then the next iteration or the return
LoopEnd ==
    /\ pc = "loop"
    /\ si > Len(BodyStages(net))
    /\ outputs' = Append(outputs, cur)
    /\ t' = t + 1
    /\ IF t + 1 < net.step
       THEN /\ cur' = inputs[t + 2]
            /\ si' = 1
            /\ pc' = "loop"
            /\ result' = result
       ELSE /\ cur' = cur
            /\ si' = si
            /\ pc' = "done"
            /\ result' = IF ~net.sum_output THEN outputs' ELSE Mean0(outputs')
    /\ UNCHANGED <<net, li, nodes, xin, inputs, err, trace, startNodes, log, op>>

\* the call returns to its caller, or its exception reaches the caller
Return ==
    /\ pc \in {"done", "raised"}
    /\ log' = Append(log, [x |-> xin, err |-> err, result |-> result,
                           dirty |-> startNodes # ResetNodes(startNodes)])
    /\ pc' = "idle"
    /\ UNCHANGED <<net, li, nodes, xin, inputs, cur, si, t, outputs, result, err,
                   trace, startNodes, op>>

(***************************************************************************)
(* Specification of one network: built by its class, then called           *)
(***************************************************************************)
Blocks == {"BasicBlock", "Bottleneck"}
\* groups / width_per_group: the defaults and the values the factories pass
GroupChoices == {1, 32}
WidthChoices == {64, 4, 64 * 2}
Cnfs == {"ADD", "AND", "IAND"}
\* the combination modes of the networks that are called
NetCnfs == Cnfs
\* tags sew_function does not know: the default None of a network built
\* without cnf, and a misspelt tag
BadCnfs == {"None", "bogus"}
EncodeTypes == {"direct", "shift"}

\* per-stack block counts of the networks that are called: a stack of two
\* blocks (the second without shortcut) and stacks of one
SmallLayers == <<2, 1, 1, 1>>

\* keyword configurations: step/encode_type/layer_by_layer go to BaseModule,
\* once and sum_output are read by the class, dataset picks the channels
Kwargs ==
    [step : 1..MaxStep, encode_type : EncodeTypes, layer_by_layer : BOOLEAN,
     once : {FALSE}, sum_output : BOOLEAN, dvs : {FALSE}]
    \cup
    [step : 1..MaxStep, encode_type : {"direct"}, layer_by_layer : BOOLEAN,
     once : {TRUE}, sum_output : BOOLEAN, dvs : {FALSE}]
    \cup
    \* neither once nor sum_output given
    [step : 1..MaxStep, encode_type : {"direct"}, layer_by_layer : BOOLEAN,
     dvs : {FALSE}]

Init ==
    /\ pc = "new"
    /\ net = NoNet
    /\ li = 1
    /\ nodes = <<>>
    /\ xin = <<>>
    /\ inputs = <<>>
    /\ cur = <<>>
    /\ si = 1
    /\ t = 0
    /\ outputs = <<>>
    /\ result = NoResult
    /\ err = NoErr
    /\ trace = <<>>
    /\ startNodes = <<>>
    /\ log = <<>>
    /\ op = [fn |-> "none"]

\* the class is called by the caller, not by a factory function
Direct == [fn |-> "class", factory |-> "", arch |-> "", pretrained |-> FALSE]

\* SEWResNet(block, layers, cnf=cnf, **kwargs) and its two sibling classes
NewNet ==
    /\ pc = "new"
    /\ \E variant \in Variants, block \in Blocks, cnf \in NetCnfs \cup BadCnfs, kw \in Kwargs :
        \* a call on a network with an unknown tag ends at the first merge:
        \* the encoder and the aggregation of its results are not varied
        /\ cnf \in BadCnfs => kw.encode_type = "direct" /\ KwGet(kw, "sum_output", TRUE)
        /\ Construct(variant, block, SmallLayers, cnf, kw, 1, 64, TRUE, <<>>, Direct)

Call == \E x \in Inputs : Forward(x)

Next ==
    \/ NewNet
    \/ MakeLayer
    \/ CtorFinish
    \/ Call
    \/ Encode
    \/ Reset
    \/ Stage
    \/ ReturnOnce
    \/ FinishFlat
    \/ LoopEnd
    \/ Return

Spec == Init /\ [][Next]_vars

(***************************************************************************)
(* Shapes: channel count c and spatial size h of a (B, c, h, h) tensor     *)
(***************************************************************************)
conv3x3_no_padding(in_planes, out_planes, stride, groups, dilation) ==
    [in_channels |-> in_planes, out_channels |-> out_planes, kernel_size |-> 3,
     stride |-> stride, padding |-> 0, groups |-> groups, dilation |-> dilation]

\* conv3x3: nn.Conv2d(kernel_size=3, padding=dilation, dilation=dilation)
conv3x3(in_planes, out_planes, stride, groups, dilation) ==
    [in_channels |-> in_planes, out_channels |-> out_planes, kernel_size |-> 3,
     stride |-> stride, padding |-> dilation, groups |-> groups, dilation |-> dilation]

\* conv1x1: nn.Conv2d(kernel_size=1), no padding
conv1x1(in_planes, out_planes, stride) ==
    [in_channels |-> in_planes, out_channels |-> out_planes, kernel_size |-> 1,
     stride |-> stride, padding |-> 0, groups |-> 1, dilation |-> 1]

\* the shape nn.Conv2d gives an input of shape sh:
\* floor((h + 2 * padding - dilation * (kernel_size - 1) - 1) / stride) + 1
Conv2dShape(conv, sh) ==
    LET span == sh.h + 2 * conv.padding - conv.dilation * (conv.kernel_size - 1) - 1
    IN  IF sh.c # conv.in_channels \/ span < 0 THEN Raise("RuntimeError")
        ELSE Ok([c |-> conv.out_channels, h |-> (span \div conv.stride) + 1])

\* the convolutions of the main path of a block, in order (normalisation
\* and spiking node keep the shape)
BlockConvs(blk) ==
    IF blk.kind = "Bottleneck"
    THEN << conv1x1(blk.inplanes, blk.width, 1),
            conv3x3(blk.width, blk.width, blk.stride, blk.groups, blk.dilation),
            conv1x1(blk.width, blk.planes * Expansion(blk.kind), 1) >>
    ELSE << conv3x3(blk.inplanes, blk.planes, blk.stride, 1, 1),
            conv3x3(blk.planes, blk.planes, 1, 1, 1) >>

\* the projection _make_layer hands a block as downsample
DownsampleConv(blk) ==
    conv1x1(blk.inplanes, blk.planes * Expansion(blk.kind), blk.stride)

\* convs[i..] applied one after another
RECURSIVE ConvChainShape(_, _, _)
ConvChainShape(convs, i, sh) ==
    IF i > Len(convs) THEN Ok(sh)
    ELSE The({ IF r.err # NoErr THEN r ELSE ConvChainShape(convs, i + 1, r.val) :
               r \in {Conv2dShape(convs[i], sh)} })

\* one axis of an elementwise operation on two tensors: equal sizes, or one
\* of them 1 (broadcast); 0 stands for sizes that do not go together
BroadcastDim(m, n) ==
    IF m = n THEN m ELSE IF m = 1 THEN n ELSE IF n = 1 THEN m ELSE 0

\* the shape of x + y, x * y, x * (1. - y)
SewShape(a, b) ==
    IF BroadcastDim(a.c, b.c) = 0 \/ BroadcastDim(a.h, b.h) = 0
    THEN Raise("RuntimeError")
    ELSE Ok([c |-> BroadcastDim(a.c, b.c), h |-> BroadcastDim(a.h, b.h)])

\* the shapes of the two merge operands and of the result of block.forward
BlockShape(blk, sh) ==
    LET main     == ConvChainShape(BlockConvs(blk), 1, sh)
        identity == IF blk.downsample THEN Conv2dShape(DownsampleConv(blk), sh)
                                      ELSE Ok(sh)
    IN  IF main.err # NoErr THEN [err |-> main.err]
        ELSE IF identity.err # NoErr THEN [err |-> identity.err]
        ELSE [err |-> SewShape(main.val, identity.val).err,
              main |-> main.val, identity |-> identity.val,
              out |-> SewShape(main.val, identity.val).val]

(***************************************************************************)
(* Function-level specification: sew_function and one block on its own     *)
(***************************************************************************)
\* equal-shaped operand pairs of every length up to MaxLen
Tensors(n) == [1..n -> Values]
AnyCnfs == Cnfs \cup BadCnfs

\* a block as the first or a later block of a stack builds it
StandaloneBlock(kind, downsample, cnf) ==
    NewBlock(kind, 64 * Expansion(kind), 64, 1, downsample, 1, 64, 1, cnf).val

\* node state of a standalone block: the membranes of the main path at
\* level m, the membrane of the shortcut node at level ms
StandaloneNodes(blk, m, ms) ==
    [id \in {<<1, 1, BlockNodeNames(blk)[n]>> : n \in DOMAIN BlockNodeNames(blk)} |->
        [b \in 1..BatchSize |-> IF id[3] = "downsample_sn" THEN ms ELSE m]]

\* a call sew_function(a, b, cnf)
ApplySew(a, b, cnf) ==
    /\ pc = "new"
    /\ pc' = "fn"
    /\ op' = [fn |-> "sew_function", x |-> a, y |-> b, cnf |-> cnf,
              res |-> sew_function(a, b, cnf)]
    /\ UNCHANGED <<net, li, nodes, xin, inputs, cur, si, t, outputs, result, err,
                   trace, startNodes, log>>

\* a call block.forward(x) on a block whose nodes hold ns
ApplyBlock(blk, ns, x) ==
    /\ pc = "new"
    /\ pc' = "fn"
    /\ op' = [fn |-> "block", blk |-> blk, ns |-> ns, x |-> x,
              res |-> BlockForward(blk, 1, 1, ns, x)]
    /\ UNCHANGED <<net, li, nodes, xin, inputs, cur, si, t, outputs, result, err,
                   trace, startNodes, log>>

CallSew ==
    \E n \in 1..MaxLen : \E a \in Tensors(n), b \in Tensors(n) : \E cnf \in AnyCnfs :
        ApplySew(a, b, cnf)

CallBlock ==
    \E kind \in Blocks, downsample \in BOOLEAN, cnf \in Cnfs :
    \E m \in 0..Threshold, ms \in 0..Threshold, x \in Tensors(BatchSize) :
        ApplyBlock(StandaloneBlock(kind, downsample, cnf),
                   StandaloneNodes(StandaloneBlock(kind, downsample, cnf), m, ms), x)

\* largest spatial size of the inputs of the shape computations
MaxH == 5

\* the running state of a network in the middle of its construction
RunningStates ==
    [inplanes : {64, 64 * 4, 128}, dilation : {1, 2},
     groups : GroupChoices, base_width : WidthChoices]

\* block.forward, shapes only, on input of the block's channel count
ApplyBlockShape(blk, k, h) ==
    /\ pc = "new"
    /\ pc' = "fn"
    /\ op' = [fn |-> "shape", blk |-> blk, k |-> k,
              x |-> [c |-> blk.inplanes, h |-> h],
              res |-> BlockShape(blk, [c |-> blk.inplanes, h |-> h])]
    /\ UNCHANGED <<net, li, nodes, xin, inputs, cur, si, t, outputs, result, err,
                   trace, startNodes, log>>

\* a block of a stack of two built by _make_layer, called on a map of size h
CallBlockShape ==
    /\ pc = "new"
    /\ \E self \in RunningStates, block \in Blocks, planes \in {64, 128},
          stride \in {1, 2}, dilate \in BOOLEAN :
       \E r \in {_make_layer(self, block, planes, 2, stride, dilate, "ADD")} :
           /\ r.err = NoErr
           /\ \E k \in DOMAIN r.stack, h \in 1..MaxH :
                  ApplyBlockShape(r.stack[k], k, h)

NextFn == CallSew \/ CallBlock \/ CallBlockShape

SpecFn == Init /\ [][NextFn]_vars

\* C1: for equal-shaped operands sew_function(a, b, 'ADD') is a + b,
\* sew_function(a, b, 'AND') is a * b and sew_function(a, b, 'IAND') is
\* a * (1 - b), elementwise, the first argument being the uncomplemented one.
SewFunctionValues ==
    (op.fn = "sew_function" /\ op.cnf \in Cnfs) =>
        /\ op.res.err = NoErr
        /\ DOMAIN op.res.val = DOMAIN op.x
        /\ \A i \in DOMAIN op.x :
              /\ op.cnf = "ADD"  => op.res.val[i] = op.x[i] + op.y[i]
              /\ op.cnf = "AND"  => op.res.val[i] = op.x[i] * op.y[i]
              /\ op.cnf = "IAND" => op.res.val[i] = op.x[i] * (1 - op.y[i])

\* an IAND call whose result tells the two argument orders apart
SewFunctionWitness ==
    /\ op.fn = "sew_function"
    /\ op.cnf = "IAND"
    /\ \E i \in DOMAIN op.x :
          op.x[i] * (1 - op.y[i]) # op.y[i] * (1 - op.x[i])

\* the two operands of the merge of the block call recorded in op
OpIdentity == ShortcutPath(op.blk, 1, 1, op.ns, op.x).out
OpMain == MainPath(op.blk, 1, 1, op.ns, op.x).out

\* C2: BasicBlock.forward returns sew_function(identity, main) and
\* Bottleneck.forward sew_function(main, identity): under IAND a BasicBlock
\* gives identity * (1 - main) and a Bottleneck main * (1 - identity); under
\* ADD and AND both argument orders give one result for every operand pair.
BlockMergeOrder ==
    /\ op.fn = "block" =>
          /\ op.res.err = NoErr
          /\ op.blk.kind = "BasicBlock" =>
                op.res.val = sew_function(OpIdentity, OpMain, op.blk.cnf).val
          /\ op.blk.kind = "Bottleneck" =>
                op.res.val = sew_function(OpMain, OpIdentity, op.blk.cnf).val
          /\ (op.blk.kind = "BasicBlock" /\ op.blk.cnf = "IAND") =>
                \A i \in DOMAIN op.x : op.res.val[i] = OpIdentity[i] * (1 - OpMain[i])
          /\ (op.blk.kind = "Bottleneck" /\ op.blk.cnf = "IAND") =>
                \A i \in DOMAIN op.x : op.res.val[i] = OpMain[i] * (1 - OpIdentity[i])
    /\ (op.fn = "sew_function" /\ op.cnf \in {"ADD", "AND"}) =>
          op.res = sew_function(op.y, op.x, op.cnf)

\* an IAND block call where the two argument orders differ
BlockMergeWitness ==
    /\ op.fn = "block"
    /\ op.blk.cnf = "IAND"
    /\ op.blk.kind = "Bottleneck"
    /\ op.blk.downsample
    /\ \E i \in DOMAIN op.x :
          OpIdentity[i] * (1 - OpMain[i]) # OpMain[i] * (1 - OpIdentity[i])

\* ceil(h / s)
CeilDiv(h, s) == (h + s - 1) \div s

\* C16: a block built by _make_layer, fed a map with the block's input
\* channel count and spatial size H, runs without a shape error; without a
\* shortcut (then stride is 1 and the input channels are planes * expansion)
\* the output has the channel count and spatial size of the input; with a
\* shortcut of stride s the main path and the shortcut path both give
\* spatial size ceil(H / s) and the output has planes * expansion channels.
BlockOutputShape ==
    op.fn = "shape" =>
        /\ op.res.err = NoErr
        /\ ~op.blk.downsample =>
               /\ op.blk.stride = 1
               /\ op.x.c = op.blk.planes * Expansion(op.blk.kind)
               /\ op.res.out = op.x
        /\ op.blk.downsample =>
               /\ op.res.main.h = CeilDiv(op.x.h, op.blk.stride)
               /\ op.res.identity.h = CeilDiv(op.x.h, op.blk.stride)
               /\ op.res.out.h = CeilDiv(op.x.h, op.blk.stride)
               /\ op.res.main.c = op.blk.planes * Expansion(op.blk.kind)
               /\ op.res.identity.c = op.blk.planes * Expansion(op.blk.kind)
               /\ op.res.out.c = op.blk.planes * Expansion(op.blk.kind)

\* a dilated, grouped Bottleneck with a stride-2 shortcut on a map of odd size
BlockOutputShapeWitness ==
    /\ op.fn = "shape"
    /\ op.blk.kind = "Bottleneck"
    /\ op.blk.downsample
    /\ op.blk.stride = 2
    /\ op.blk.dilation = 2
    /\ op.blk.groups = 32
    /\ op.x.h = 5
    /\ op.res.out = [c |-> 4 * op.blk.planes, h |-> 3]

(***************************************************************************)
(* Reference computations used by the properties                           *)
(***************************************************************************)
\* the statements stages[i..] run one after another from node state ns
RECURSIVE RunStages(_, _, _, _, _)
RunStages(n, stages, i, ns, x) ==
    IF i > Len(stages) THEN [err |-> NoErr, val |-> x, nodes |-> ns]
    ELSE The({ IF r.err # NoErr THEN r
                                ELSE RunStages(n, stages, i + 1, r.nodes, r.val) :
               r \in {ApplyStage(n, stages[i], ns, x)} })

\* the per-timestep outputs of timesteps k.. of slices ins, each timestep
\* starting from the node state the one before it left
RECURSIVE LoopOutputs(_, _, _, _)
LoopOutputs(n, ns, ins, k) ==
    IF k > Len(ins) THEN <<>>
    ELSE The({ <<r.val>> \o LoopOutputs(n, r.nodes, ins, k + 1) :
               r \in {RunStages(n, ImplStages(n.variant), 1, ns, ins[k])} })

\* what a flattened or looped call on x returns when it starts from reset nodes
FromReset(n, ns, x) ==
    IF n.layer_by_layer
    THEN The({ IF n.sum_output THEN Mean0(Rearrange(r.val, n.step))
                                ELSE Rearrange(r.val, n.step) :
               r \in {RunStages(n, ImplStages(n.variant), 1, ResetNodes(ns),
                                EncodeFlat(x, n.encode_type, n.step))} })
    ELSE The({ IF n.sum_output THEN Mean0(outs) ELSE outs :
               outs \in {LoopOutputs(n, ResetNodes(ns),
                                     EncodeLooped(x, n.encode_type, n.step), 1)} })

AllInitial(ns) == \A id \in DOMAIN ns : ns[id] = InitMem

\* position of the stem node among the statements of the body
StemNodeIndex == 3

(***************************************************************************)
(* Properties of forward                                                   *)
(***************************************************************************)
\* C3: in every forward call with once = False, whatever calls came before,
\* reset() runs after the encoder and before any spiking node is applied, so
\* when the stem node is about to process its first input every spiking node
\* of the network is in its initial state.
ResetBeforeNodes ==
    (pc \in {"reset", "flat", "loop"}) =>
        /\ trace[1] = "encoder"
        /\ pc # "reset" => trace[2] = "reset"
        /\ pc = "reset" => Len(trace) = 1
        /\ (pc # "reset" /\ t = 0 /\ si <= StemNodeIndex) => AllInitial(nodes)

\* the stem node is about to run in a call that found used nodes
ResetBeforeNodesWitness ==
    /\ pc \in {"flat", "loop"}
    /\ t = 0
    /\ si = StemNodeIndex
    /\ BodyStages(net)[si] = "node1"
    /\ ~AllInitial(startNodes)
    /\ AllInitial(nodes)

\* C4: in looped mode, with fixed parameters, two forward calls on the same
\* input return identical outputs, whatever calls were made before or
\* between them.
LoopedRepeatable ==
    (Len(log) > 0 /\ Mode(net) = "loop") =>
        \A i \in DOMAIN log : \A j \in DOMAIN log :
            log[i].x = log[j].x => log[i].result = log[j].result

\* the same input first and last, another input in between, and the last
\* call found the nodes used
LoopedRepeatableWitness ==
    /\ Len(log) = 3
    /\ Mode(net) = "loop"
    /\ log[1].x = log[3].x
    /\ log[2].x # log[1].x
    /\ log[2].result # log[1].result
    /\ log[3].dirty
    /\ net.step > 1

\* C5 as stated: in all three modes two calls on the same input return the
\* same result, whatever the calls before them.
NoHistoryInfluence ==
    Len(log) > 0 =>
        \A i \in DOMAIN log : \A j \in DOMAIN log :
            (log[i].x = log[j].x /\ log[i].err = NoErr /\ log[j].err = NoErr)
                => log[i].result = log[j].result

\* C5, amended: in the flattened and the looped mode the result of a call is
\* a function of its input and the parameters only: it is what the pass
\* returns from freshly reset nodes, whatever state earlier calls left.
NoHistoryInfluenceWithReset ==
    (pc = "done" /\ ~net.once) =>
        /\ err = NoErr
        /\ result = FromReset(net, nodes, xin)

\* a flattened call that found used nodes has returned
NoHistoryInfluenceWitness ==
    /\ pc = "done"
    /\ Mode(net) = "flat"
    /\ ~AllInitial(startNodes)
    /\ Len(log) = 2
    /\ log[1].x # xin
    /\ log[1].result # result

\* C6 as stated, for every network built with once = True and a valid cnf: a forward call
\* runs the body exactly once on the raw input, never calls the encoder or
\* reset(), and returns that one body output unaggregated; the stages run do
\* not depend on step or sum_output.
OnceRunsBodyOnce ==
    (pc \in {"done", "raised"} /\ net.once /\ net.cnf \in Cnfs) =>
        /\ pc = "done"
        /\ trace = OnceStages(net.variant)
        /\ inputs = <<>>
        /\ result = cur
        /\ result = RunStages(net, OnceStages(net.variant), 1, startNodes, xin).val

\* what the once pass of the SEWResNet class itself does: C6 restricted to it
OnceRunsBodyOnce_SEWResNet ==
    (pc \in {"done", "raised"} /\ net.once /\ net.cnf \in Cnfs
                                /\ net.variant = "SEWResNet") =>
        /\ pc = "done"
        /\ trace = OnceStages(net.variant)
        /\ inputs = <<>>
        /\ result = cur
        /\ result = RunStages(net, OnceStages(net.variant), 1, startNodes, xin).val

\* C7 as stated: for each of the three variants (built with a valid cnf) a
\* once call completes, and
\* the stages it executes are the ones the variant's constructor created,
\* those its looped pass runs for one timestep.
OnceUsesOwnStages ==
    (pc \in {"once", "done", "raised"} /\ net.once /\ net.cnf \in Cnfs) =>
        /\ pc # "raised"
        /\ \A i \in DOMAIN trace :
              /\ trace[i] = ImplStages(net.variant)[i]
              /\ NeedsAttr(trace[i]) => trace[i] \in net.owned

\* stages repeated k times
RECURSIVE Repeat(_, _)
Repeat(stages, k) == IF k = 0 THEN <<>> ELSE stages \o Repeat(stages, k - 1)

\* xs[1][b] + ... + xs[k][b]
RECURSIVE Sigma(_, _, _)
Sigma(xs, b, k) == IF k = 0 THEN 0 ELSE xs[k][b] + Sigma(xs, b, k - 1)

\* C9: a looped call with step >= 1 calls the encoder once, resets once, then
\* runs the body step times, timestep t on the encoder's slice inputs[t] in
\* the order t = 0, 1, ..., each from the node state the one before left;
\* the result is the elementwise mean of the step outputs when sum_output,
\* the list of the step outputs in timestep order otherwise.
LoopedPass ==
    (pc = "done" /\ Mode(net) = "loop") =>
        /\ trace = <<"encoder", "reset">> \o Repeat(ImplStages(net.variant), net.step)
        /\ inputs = EncodeLooped(xin, net.encode_type, net.step)
        /\ Len(outputs) = net.step
        /\ outputs = LoopOutputs(net, ResetNodes(nodes), inputs, 1)
        /\ net.sum_output =>
              /\ result.den = net.step
              /\ DOMAIN result.num = 1..BatchSize
              /\ \A b \in 1..BatchSize : result.num[b] = Sigma(outputs, b, net.step)
        /\ ~net.sum_output => result = outputs

\* a looped call over distinct slices whose second timestep saw the state
\* the first one left
LoopedPassWitness ==
    /\ pc = "done"
    /\ Mode(net) = "loop"
    /\ net.step >= 2
    /\ net.sum_output
    /\ inputs[1] # inputs[2]
    /\ outputs[1] # outputs[2]
    /\ outputs[2] # RunStages(net, ImplStages(net.variant), 1, ResetNodes(nodes),
                              inputs[2]).val

\* C10: a flattened call runs the body once on the encoder's tensor of
\* step * B rows, regroups the classifier output so that entry [t][b] is row
\* t * B + b of it, and returns the mean over the step axis when sum_output,
\* the regrouped (step, B) result otherwise.
FlattenedPass ==
    (pc = "done" /\ Mode(net) = "flat") =>
        /\ trace = <<"encoder", "reset">> \o ImplStages(net.variant)
        /\ Len(inputs) = net.step * BatchSize
        /\ Len(cur) = net.step * BatchSize
        /\ cur = RunStages(net, ImplStages(net.variant), 1, ResetNodes(nodes), inputs).val
        /\ ~net.sum_output =>
              /\ DOMAIN result = 1..net.step
              /\ \A tt \in 1..net.step :
                    /\ DOMAIN result[tt] = 1..BatchSize
                    /\ \A b \in 1..BatchSize :
                          result[tt][b] = cur[(tt - 1) * BatchSize + b]
        /\ net.sum_output =>
              /\ result.den = net.step
              /\ DOMAIN result.num = 1..BatchSize
              /\ \A b \in 1..BatchSize :
                    result.num[b] =
                        Sigma([tt \in 1..net.step |->
                                  [bb \in 1..BatchSize |-> cur[(tt - 1) * BatchSize + bb]]],
                              b, net.step)

\* a flattened call whose rows differ along the step axis and along the
\* batch axis
FlattenedPassWitness ==
    /\ pc = "done"
    /\ Mode(net) = "flat"
    /\ net.step >= 2
    /\ ~net.sum_output
    /\ result[1] # result[2]
    /\ result[1][1] # result[1][2]
    /\ cur[2] # cur[BatchSize + 1]

\* the same network run with the other of the two multi-step strategies
OtherStrategy(n) == [n EXCEPT !.layer_by_layer = ~n.layer_by_layer]

InForward == pc \in {"encode", "reset", "once", "flat", "loop", "done", "raised"}

\* the statements the pass of network n runs before its first stack
BeforeLayer1(n) ==
    {BodyStages(n)[i] : i \in {j \in DOMAIN BodyStages(n) :
                                  \A k \in 1..j : BodyStages(n)[k] # "layer1"}}

\* the nodes that run after the merge of the first block of the first stack
AfterFirstMerge(ns) == {id \in DOMAIN ns : id[1] > 1 \/ (id[1] = 1 /\ id[2] > 1)}

\* C12: a tag other than 'ADD', 'AND', 'IAND' (None included) makes
\* sew_function raise NotImplementedError; a network built with such a tag
\* is constructed without error, and a forward call on it that reaches the
\* first stack raises NotImplementedError at the merge of that stack's first
\* block (no later block has run); the error reaches the caller and no call
\* on such a network ever returns a result.
UnsupportedCnfRaises ==
    /\ \A c \in BadCnfs : \A x \in Tensors(1), y \in Tensors(1) :
           sew_function(x, y, c) = Raise("NotImplementedError")
    /\ (pc = "idle" \/ InForward) /\ net.cnf \notin Cnfs =>
           /\ pc # "done"
           /\ result = NoResult
           /\ \A i \in DOMAIN log : log[i].err # NoErr /\ log[i].result = NoResult
           /\ BeforeLayer1(net) \subseteq net.owned =>
                  /\ \A i \in DOMAIN log : log[i].err = "NotImplementedError"
                  /\ pc = "raised" =>
                         /\ err = "NotImplementedError"
                         /\ trace[Len(trace)] = "layer1"
                         /\ \A id \in AfterFirstMerge(nodes) :
                                nodes[id] = IF net.once THEN startNodes[id] ELSE InitMem

\* the second call on a network built without cnf has raised at the first
\* merge, as the first did, after the stem node and the first block ran
UnsupportedCnfWitness ==
    /\ net # NoNet
    /\ pc = "raised"
    /\ net.cnf = "None"
    /\ err = "NotImplementedError"
    /\ Len(log) = 1
    /\ log[1].err = "NotImplementedError"
    /\ nodes[<<0, 0, "node1">>] # InitMem
    /\ nodes[<<1, 1, "node2">>] # InitMem

\* the positions of a forward call, from the call to its return or raise
ForwardPcs == {"idle", "encode", "reset", "once", "flat", "loop", "done", "raised"}

\* a step of a forward call that keeps the network's settings, its
\* combination mode, its running inplanes / dilation, its stacks of blocks
\* and its set of spiking nodes
KeepsNetwork ==
    /\ net' = net
    /\ net'.step = net.step
    /\ net'.once = net.once
    /\ net'.sum_output = net.sum_output
    /\ net'.layer_by_layer = net.layer_by_layer
    /\ net'.cnf = net.cnf
    /\ net'.inplanes = net.inplanes
    /\ net'.dilation = net.dilation
    /\ net'.stacks = net.stacks
    /\ li' = li
    /\ DOMAIN nodes' = DOMAIN nodes

Ended == {"done", "raised"}

\* what the call in progress shows of each strategy: the statement it is
\* at, or, once it has ended, the calls it made and the value it encoded
ShowsOnce ==
    \/ pc = "once"
    \/ pc \in Ended /\ \A i \in DOMAIN trace : trace[i] \notin {"encoder", "reset"}
ShowsFlat ==
    \/ pc = "flat"
    \/ /\ pc \in Ended
       /\ \E i \in DOMAIN trace : trace[i] = "encoder"
       /\ Len(inputs) = net.step * Len(xin)
       /\ outputs = <<>>
ShowsLoop ==
    \/ pc = "loop"
    \/ /\ pc \in Ended
       /\ \E i \in DOMAIN trace : trace[i] = "encoder"
       /\ Len(inputs) = net.step
       /\ pc = "done" => Len(outputs) = net.step
StrategiesShown ==
    {s \in {"once", "flat", "loop"} :
        \/ s = "once" /\ ShowsOnce
        \/ s = "flat" /\ ShowsFlat
        \/ s = "loop" /\ ShowsLoop}

\* C20: once and layer_by_layer are set independently; a forward call runs
\* exactly one strategy: the single pass when once (whatever
\* layer_by_layer), the flattened pass when ~once and layer_by_layer, the
\* looped pass when neither; a network built without the keyword once has
\* once = False, one built without sum_output has sum_output = True.
StrategySelected ==
    /\ pc \in {"once", "flat", "loop"} \cup Ended =>
          StrategiesShown =
              {IF net.once THEN "once"
               ELSE IF net.layer_by_layer THEN "flat" ELSE "loop"}
    /\ pc \in {"encode", "reset"} => ~net.once
    /\ (pc # "new" /\ "kw_given" \in DOMAIN net) =>
          /\ "once" \notin net.kw_given => net.once = FALSE
          /\ "sum_output" \notin net.kw_given => net.sum_output = TRUE

\* a network built with once and layer_by_layer both true has run the
\* single pass to its return
StrategySelectedWitness ==
    /\ pc = "done"
    /\ net.once
    /\ net.layer_by_layer
    /\ StrategiesShown = {"once"}
    /\ result = cur

\* a network built without once and without sum_output has run the
\* flattened pass and returned the mean over the timesteps
DefaultsWitness ==
    /\ pc = "done"
    /\ net.kw_given = {"step", "encode_type", "layer_by_layer", "dvs"}
    /\ net.layer_by_layer
    /\ net.step = MaxStep
    /\ StrategiesShown = {"flat"}
    /\ result = Mean0(Rearrange(cur, net.step))

(***************************************************************************)
(* Specification of construction: every argument of the classes varied     *)
(***************************************************************************)
\* longest replace_stride_with_dilation value tried
MaxRswdLen == 4

\* replace_stride_with_dilation values: boolean lists of length 0..MaxRswdLen
RswdValues == UNION {[1..n -> BOOLEAN] : n \in 0..MaxRswdLen}

\* block counts of a stack: one block, or a first block and a later one
BlockCounts == {1, 2}

\* the number of _make_layer calls of a variant's __init__
NumStacks(variant) == Len(StackPlan(variant, <<1, 1, 1, 1>>, <<FALSE, FALSE, FALSE>>))

\* the layers argument: one block count per stack
LayerLists(variant) == [1..NumStacks(variant) -> BlockCounts]

\* a keyword configuration without once and without sum_output
CtorKw == [step |-> 1, encode_type |-> "direct", layer_by_layer |-> FALSE, dvs |-> FALSE]

\* a class called with any block, layers, groups, width_per_group and
\* replace_stride_with_dilation
NewNetAny ==
    /\ pc = "new"
    /\ \E variant \in Variants, block \in Blocks, groups \in GroupChoices,
          width_per_group \in WidthChoices, rswdNone \in BOOLEAN :
       \E layers \in LayerLists(variant),
          rswd \in IF rswdNone THEN {<<>>} ELSE RswdValues :
           Construct(variant, block, layers, "ADD", CtorKw, groups, width_per_group,
                     rswdNone, rswd, Direct)

NextCtor ==
    \/ NewNetAny
    \/ MakeLayer
    \/ CtorFinish

SpecCtor == Init /\ [][NextCtor]_vars

\* C13: each of the three classes, given a replace_stride_with_dilation
\* whose length is not 3, raises ValueError before anything is built (no stem
\* attribute, no stack); given None it goes on as if given
\* [False, False, False], and given three flags it keeps them.
RswdLengthChecked ==
    pc # "new" =>
        /\ (~net.rswd_arg.none /\ Len(net.rswd_arg.val) # 3) =>
               /\ pc = "ctor_raised"
               /\ err = "ValueError"
               /\ net.owned = {}
               /\ net.stacks = <<>>
        /\ net.rswd_arg.none =>
               /\ StemAttrs(net.variant) \subseteq net.owned
               /\ net.rswd = <<FALSE, FALSE, FALSE>>
               /\ \A i \in DOMAIN StackPlan(net.variant, net.layers, net.rswd) :
                      ~StackPlan(net.variant, net.layers, net.rswd)[i].dilate
        /\ (~net.rswd_arg.none /\ Len(net.rswd_arg.val) = 3) =>
               /\ StemAttrs(net.variant) \subseteq net.owned
               /\ net.rswd = net.rswd_arg.val

\* a class given four flags has raised
RswdLengthWitness ==
    /\ pc = "ctor_raised"
    /\ ~net.rswd_arg.none
    /\ Len(net.rswd_arg.val) = 4
    /\ net.variant = "SEWResNetCifar"
    /\ err = "ValueError"

\* the constructor got past the check of replace_stride_with_dilation
PastRswdCheck == pc # "new" /\ "groups" \in DOMAIN net

\* C14: BasicBlock(...) with groups # 1 or base_width # 64 raises ValueError
\* and builds no block, whatever its other arguments, and Bottleneck(...)
\* accepts every groups / base_width; so a network of BasicBlocks with
\* groups # 1 or width_per_group # 64 raises ValueError at its first
\* _make_layer call, with no block built, and is never constructed, while a
\* network of Bottlenecks is constructed with every groups / width_per_group.
BasicBlockRejectsGroups ==
    /\ \A groups \in GroupChoices, base_width \in WidthChoices :
       \A stride \in {1, 2}, downsample \in BOOLEAN, dilation \in {1, 2} :
           /\ (groups # 1 \/ base_width # 64) =>
                  BasicBlock(64, 64, stride, downsample, groups, base_width,
                             dilation, "ADD") = Raise("ValueError")
           /\ Bottleneck(64, 64, stride, downsample, groups, base_width,
                         dilation, "ADD").err = NoErr
    /\ PastRswdCheck =>
           /\ (net.block = "BasicBlock" /\ (net.groups # 1 \/ net.base_width # 64)) =>
                  /\ net.stacks = <<>>
                  /\ li = 1
                  /\ pc \in {"ctor", "ctor_raised"}
                  /\ pc = "ctor_raised" => err = "ValueError"
           /\ net.block = "Bottleneck" => pc # "ctor_raised" /\ err = NoErr
           /\ pc = "idle" =>
                  net.block = "Bottleneck" \/ (net.groups = 1 /\ net.base_width = 64)

\* a network of BasicBlocks with the default groups and a width_per_group
\* other than 64 has raised after its stem was built
BasicBlockRejectsWitness ==
    /\ pc = "ctor_raised"
    /\ PastRswdCheck
    /\ err = "ValueError"
    /\ net.block = "BasicBlock"
    /\ net.groups = 1
    /\ net.base_width = 64 * 2
    /\ net.owned = StemAttrs(net.variant)

\* the blocks stacks[l][k..], stacks[l+1], ... applied to shape sh: the shape
\* that comes out, and whether the two operands of every merge had one shape
RECURSIVE StacksShape(_, _, _, _)
StacksShape(stacks, l, k, sh) ==
    IF l > Len(stacks) THEN [err |-> NoErr, val |-> sh, agree |-> TRUE]
    ELSE IF k > Len(stacks[l]) THEN StacksShape(stacks, l + 1, 1, sh)
    ELSE The({ IF r.err # NoErr THEN [err |-> r.err, val |-> sh, agree |-> FALSE]
               ELSE The({ [err |-> rest.err, val |-> rest.val,
                           agree |-> rest.agree /\ r.main = r.identity] :
                          rest \in {StacksShape(stacks, l, k + 1, r.out)} }) :
               r \in {BlockShape(stacks[l][k], sh)} })

\* the running inplanes when stack l was built: the stem's 64 channels, or
\* what the stack before left
InplanesBefore(n, l) ==
    IF l = 1 THEN 64
    ELSE n.stacks[l - 1][1].planes * Expansion(n.block)

\* C17: in every network under construction or constructed, whatever the
\* block type, the layers list and the dilation flags, each stack built so
\* far has layers[l] blocks of the planned planes; its first block takes the
\* running inplanes and has a shortcut exactly when its stride is not 1 or
\* the running inplanes differ from planes * expansion; every later block
\* has no shortcut, stride 1 and planes * expansion input channels; on every
\* input size the two operands of every merge have the same channel count
\* and spatial size; and once all stacks are built the running inplanes, and
\* the channel count that reaches the classifier, are 512 * expansion.
ShapeConsistent ==
    PastRswdCheck =>
        /\ \A l \in DOMAIN net.stacks :
              /\ Len(net.stacks[l]) = net.layers[l]
              /\ \A k \in DOMAIN net.stacks[l] :
                    /\ net.stacks[l][k].planes =
                          StackPlan(net.variant, net.layers, net.rswd)[l].planes
                    /\ k = 1 =>
                          /\ net.stacks[l][k].inplanes = InplanesBefore(net, l)
                          /\ net.stacks[l][k].downsample <=>
                                (\/ net.stacks[l][k].stride # 1
                                 \/ InplanesBefore(net, l) #
                                       net.stacks[l][k].planes * Expansion(net.block))
                    /\ k > 1 =>
                          /\ ~net.stacks[l][k].downsample
                          /\ net.stacks[l][k].stride = 1
                          /\ net.stacks[l][k].inplanes =
                                net.stacks[l][k].planes * Expansion(net.block)
        /\ \A h \in 1..MaxH :
              \E r \in {StacksShape(net.stacks, 1, 1, [c |-> 64, h |-> h])} :
                  /\ r.err = NoErr
                  /\ r.agree
                  /\ pc = "idle" => r.val.c = 512 * Expansion(net.block)
        /\ pc = "idle" =>
              /\ Len(net.stacks) = NumStacks(net.variant)
              /\ net.inplanes = 512 * Expansion(net.block)

\* a constructed SEWResNet of BasicBlocks: its first stack starts without a
\* shortcut, its second stack has two blocks, the first with a shortcut
ShapeConsistentWitness ==
    /\ pc = "idle"
    /\ PastRswdCheck
    /\ net.variant = "SEWResNet"
    /\ net.block = "BasicBlock"
    /\ ~net.stacks[1][1].downsample
    /\ Len(net.stacks[2]) = 2
    /\ net.stacks[2][1].downsample
    /\ ~net.stacks[2][2].downsample

\* the running dilation after the first l _make_layer calls of the plan:
\* 1, multiplied by the stride of every call made with dilate
RECURSIVE DilationAfter(_, _)
DilationAfter(plan, l) ==
    IF l = 0 THEN 1
    ELSE DilationAfter(plan, l - 1) * (IF plan[l].dilate THEN plan[l].stride ELSE 1)

\* the product of the strides of the first blocks of stacks 1..l
RECURSIVE StrideProduct(_, _)
StrideProduct(stacks, l) ==
    IF l = 0 THEN 1 ELSE StrideProduct(stacks, l - 1) * stacks[l][1].stride

\* C18: for every stack built, a _make_layer call with dilate = True and
\* stride s builds the stack with stride 1 and multiplies the running
\* dilation by s, a call with dilate = False keeps the stride and the
\* dilation; the first block of the stack has the dilation in force before
\* the call, every later block the dilation in force after it; the running
\* dilation is carried from call to call.  So in a constructed SEWResNet of
\* Bottlenecks (product of the stacks' strides) * (running dilation) = 8
\* whatever the three flags.
DilationThreaded ==
    PastRswdCheck =>
        \E plan \in {StackPlan(net.variant, net.layers, net.rswd)} :
            /\ \A l \in DOMAIN net.stacks :
                  /\ net.stacks[l][1].stride =
                        IF plan[l].dilate THEN 1 ELSE plan[l].stride
                  /\ \A k \in DOMAIN net.stacks[l] :
                        net.stacks[l][k].dilation =
                            IF k = 1 THEN DilationAfter(plan, l - 1)
                                     ELSE DilationAfter(plan, l)
            /\ pc \in {"ctor", "idle"} =>
                  net.dilation = DilationAfter(plan, Len(net.stacks))
            /\ (pc = "idle" /\ net.variant = "SEWResNet" /\ net.block = "Bottleneck") =>
                  StrideProduct(net.stacks, Len(net.stacks)) * net.dilation = 8

\* a constructed SEWResNet of Bottlenecks with the first and the third
\* stride replaced: the third stack's first block has dilation 1, the
\* block after it dilation 2, and the last stack ends with dilation 4
DilationThreadedWitness ==
    /\ pc = "idle"
    /\ PastRswdCheck
    /\ net.variant = "SEWResNet"
    /\ net.block = "Bottleneck"
    /\ net.rswd = <<TRUE, FALSE, TRUE>>
    /\ Len(net.stacks[2]) = 2
    /\ net.stacks[2][1].dilation = 1
    /\ net.stacks[2][2].dilation = 2
    /\ net.stacks[3][1].stride = 2
    /\ Len(net.stacks[4]) = 2
    /\ net.stacks[4][1].dilation = 2
    /\ net.stacks[4][2].dilation = 4
    /\ net.dilation = 4

\* a SEWResNet of BasicBlocks with the default groups and width_per_group
\* whose construction has ended, by return or by raise
BasicNetEnded ==
    /\ pc \in {"idle", "ctor_raised"}
    /\ PastRswdCheck
    /\ net.variant = "SEWResNet"
    /\ net.block = "BasicBlock"
    /\ net.groups = 1
    /\ net.base_width = 64

\* only the third flag is set and the fourth stack has a single block
OnlyLastStackDilated(n) ==
    /\ n.rswd = <<FALSE, FALSE, TRUE>>
    /\ n.layers[4] = 1

\* C21: BasicBlock (with groups = 1 and base_width = 64) raises
\* NotImplementedError when its dilation is above 1 and builds the block
\* when it is 1.  So SEWResNet(BasicBlock, layers) with the default groups
\* and width and three replace_stride_with_dilation flags raises
\* NotImplementedError during construction exactly when some flag is true,
\* unless only the third flag is true and the fourth stack has one block;
\* with all flags false the construction returns.
BasicBlockDilation ==
    /\ \A dilation \in 1..4, stride \in 1..2, downsample \in BOOLEAN :
          BasicBlock(64, 64, stride, downsample, 1, 64, dilation, "ADD").err =
              IF dilation > 1 THEN "NotImplementedError" ELSE NoErr
    /\ BasicNetEnded =>
          /\ pc = "ctor_raised" <=>
                /\ \E i \in 1..3 : net.rswd[i]
                /\ ~OnlyLastStackDilated(net)
          /\ pc = "ctor_raised" => err = "NotImplementedError"
          /\ net.rswd = <<FALSE, FALSE, FALSE>> => pc = "idle" /\ err = NoErr

\* the exception: the third stride replaced, one block in the fourth stack;
\* the network is constructed with running dilation 2
BasicBlockDilationWitness ==
    /\ BasicNetEnded
    /\ pc = "idle"
    /\ OnlyLastStackDilated(net)
    /\ Len(net.stacks) = 4
    /\ net.stacks[4][1].dilation = 1
    /\ net.dilation = 2

\* the first stride replaced and a single block in the second stack: the
\* second stack is built, the first block of the third stack raises
BasicBlockDilationRaisedWitness ==
    /\ BasicNetEnded
    /\ pc = "ctor_raised"
    /\ err = "NotImplementedError"
    /\ net.rswd = <<TRUE, FALSE, FALSE>>
    /\ net.layers[2] = 1
    /\ Len(net.stacks) = 2
    /\ li = 3

(***************************************************************************)
(* Factory functions                                                       *)
(***************************************************************************)
\* the keys of model_urls
ModelUrls ==
    {"resnet18", "resnet34", "resnet50", "resnet101", "resnet152",
     "resnext50_32x4d", "resnext101_32x8d", "wide_resnet50_2", "wide_resnet101_2"}

\* the class, block and per-stack block counts a factory passes on, the
\* groups / width_per_group it sets, the function it goes through, and
\* whether it hands _sew_resnet one positional argument too many
Fac(variant, block, layers, groups, width, fn, arch, extra) ==
    [variant |-> variant, block |-> block, layers |-> layers, groups |-> groups,
     width |-> width, fn |-> fn, arch |-> arch, extra |-> extra]

Factories ==
    [sew_resnet19 |->
        Fac("SEWResNet19", "BasicBlock", <<3, 3, 2>>, 1, 64, "class", "", FALSE),
     sew_resnet18 |->
        Fac("SEWResNet", "BasicBlock", <<2, 2, 2, 2>>, 1, 64, "_sew_resnet", "resnet18", FALSE),
     sew_resnet20 |->
        Fac("SEWResNetCifar", "BasicBlock", <<3, 3, 3>>, 1, 64, "class", "", FALSE),
     sew_resnet32 |->
        Fac("SEWResNetCifar", "BasicBlock", <<5, 5, 5>>, 1, 64, "class", "", FALSE),
     sew_resnet44 |->
        Fac("SEWResNetCifar", "BasicBlock", <<7, 7, 7>>, 1, 64, "class", "", FALSE),
     sew_resnet56 |->
        Fac("SEWResNetCifar", "BasicBlock", <<9, 9, 9>>, 1, 64, "class", "", FALSE),
     sew_resnet34 |->
        Fac("SEWResNet", "BasicBlock", <<3, 4, 6, 3>>, 1, 64, "_sew_resnet", "resnet34", FALSE),
     sew_resnet50 |->
        Fac("SEWResNet", "Bottleneck", <<3, 4, 6, 3>>, 1, 64, "_sew_resnet", "resnet50", FALSE),
     sew_resnet101 |->
        Fac("SEWResNet", "Bottleneck", <<3, 4, 23, 3>>, 1, 64, "_sew_resnet", "resnet101", FALSE),
     sew_resnet152 |->
        Fac("SEWResNet", "Bottleneck", <<3, 8, 36, 3>>, 1, 64, "_sew_resnet", "resnet152", FALSE),
     sew_resnext50_32x4d |->
        Fac("SEWResNet", "Bottleneck", <<3, 4, 6, 3>>, 32, 4, "_sew_resnet",
            "resnext50_32x4d", FALSE),
     sew_resnext34_32x4d |->
        Fac("SEWResNet", "BasicBlock", <<3, 4, 6, 3>>, 32, 4, "_sew_resnet",
            "resnext34_32x4d", FALSE),
     sew_resnext101_32x8d |->
        Fac("SEWResNet", "Bottleneck", <<3, 4, 23, 3>>, 32, 8, "_sew_resnet",
            "resnext101_32x8d", TRUE),
     sew_wide_resnet50_2 |->
        Fac("SEWResNet", "Bottleneck", <<3, 4, 6, 3>>, 1, 64 * 2, "_sew_resnet",
            "wide_resnet50_2", FALSE),
     sew_wide_resnet101_2 |->
        Fac("SEWResNet", "Bottleneck", <<3, 4, 23, 3>>, 1, 64 * 2, "_sew_resnet",
            "wide_resnet101_2", FALSE)]

FactoryNames == DOMAIN Factories

\* a registered factory called as name(pretrained, cnf=cnf, **kw)
FactoryCall(name, pretrained, cnf, kw) ==
    LET f   == Factories[name]
        via == [fn |-> f.fn, factory |-> name, arch |-> f.arch, pretrained |-> pretrained]
    IN  IF f.extra
        THEN \* _sew_resnet() takes 6 positional arguments but 7 were given
             /\ pc = "new"
             /\ pc' = "ctor_raised"
             /\ err' = "TypeError"
             /\ net' = [variant |-> "none", owned |-> {}, stacks |-> <<>>, via |-> via,
                        rswd_arg |-> [none |-> TRUE, val |-> <<>>]]
             /\ UNCHANGED <<li, nodes, xin, inputs, cur, si, t, outputs, result, trace,
                            startNodes, log, op>>
        ELSE Construct(f.variant, f.block, f.layers, cnf, kw, f.groups, f.width,
                       TRUE, <<>>, via)

\* _sew_resnet with pretrained: fetch the checkpoint of arch and load it
LoadPretrained ==
    /\ pc = "load"
    /\ IF net.via.arch \in ModelUrls
       THEN /\ net' = [net EXCEPT !.loaded = TRUE]
            /\ pc' = "idle"
            /\ err' = err
       ELSE /\ net' = net
            /\ pc' = "ctor_raised"
            /\ err' = "KeyError"
    /\ UNCHANGED <<li, nodes, xin, inputs, cur, si, t, outputs, result, trace,
                   startNodes, log, op>>

\* minimal valid keyword configurations of a factory call
FactoryKwargs ==
    [step : {1}, encode_type : {"direct"}, layer_by_layer : {FALSE},
     once : BOOLEAN, sum_output : {TRUE}, dvs : BOOLEAN]

CallFactory ==
    /\ pc = "new"
    /\ \E name \in FactoryNames, pretrained \in BOOLEAN, cnf \in Cnfs, kw \in FactoryKwargs :
        FactoryCall(name, pretrained, cnf, kw)

NextFactory ==
    \/ CallFactory
    \/ MakeLayer
    \/ CtorFinish
    \/ LoadPretrained

SpecFactory == Init /\ [][NextFactory]_vars

\* C8 as stated: every registered factory function, called with
\* pretrained = False, a valid cnf and a minimal valid configuration,
\* returns a constructed network without raising.
FactoriesConstruct ==
    ~(pc = "ctor_raised" /\ ~net.via.pretrained)

\* C15 as stated: whichever factory returned the model, it was loaded from
\* the reference checkpoint exactly when the call had pretrained = True.
PretrainedLoaded ==
    pc = "idle" => (net.loaded <=> net.via.pretrained)

\* what the factories that go through _sew_resnet do: C15 restricted to them
PretrainedLoaded_sew_resnet ==
    (pc = "idle" /\ net.via.fn = "_sew_resnet") => (net.loaded <=> net.via.pretrained)

====
